---- MODULE Spec2Model ----
(***************************************************************************)
(* Profit-Finder dashboard: the column matcher, the schema inferrer, the   *)
(* cleaning pipeline and the derivation engine of etl.py, and the session  *)
(* behaviour of the Streamlit script app.py over utils.py.                 *)
(*                                                                         *)
(* A Python str is a sequence of one-character strings, so that lower(),   *)
(* strip(), `in` and the regular expression of coerce_numeric are computed *)
(* characterwise.  An optional value (a result that may be None) is <<>>   *)
(* for None and <<v>> for the value v.                                     *)
(***************************************************************************)
EXTENDS Integers, Sequences, FiniteSets, TLC

-----------------------------------------------------------------------------
(* Strings used as column names, cell texts and synthesized column names.  *)
s_order_date == <<"o","r","d","e","r","_","d","a","t","e">>
s_Item == <<"I","t","e","m">>
s_Unit_Price == <<"U","n","i","t"," ","P","r","i","c","e">>
s_Qty == <<"Q","t","y">>
s_revenue == <<"r","e","v","e","n","u","e">>
s_unit_cost == <<"u","n","i","t","_","c","o","s","t">>
s_Revenue_sp == <<" ","R","e","v","e","n","u","e"," ">>
s_price == <<"p","r","i","c","e">>
s_notes == <<"n","o","t","e","s">>
s_quantity == <<"q","u","a","n","t","i","t","y">>
s_qty == <<"q","t","y">>
s_q == <<"q">>
s_qty_sp == <<"q","t","y"," ">>
s_qty_sold == <<"q","t","y","_","s","o","l","d">>
s_QTY_sp == <<" ","Q","T","Y"," ">>
s_None == <<"N","o","n","e">>
s_missing == <<"m","i","s","s","i","n","g">>
s_parsed_date == <<"_","p","a","r","s","e","d","_","d","a","t","e">>
s_revenue_computed == <<"r","e","v","e","n","u","e","_","_","c","o","m","p","u","t","e","d">>
s_cost_computed == <<"c","o","s","t","_","_","c","o","m","p","u","t","e","d">>
s_quantity_inferred == <<"q","u","a","n","t","i","t","y","_","_","i","n","f","e","r","r","e","d">>
s_profit == <<"p","r","o","f","i","t">>
s_margin == <<"m","a","r","g","i","n">>
s_nan == <<"n","a","n">>
s_Unknown == <<"U","n","k","n","o","w","n">>
s_NA == <<"N","A">>
s_N_A == <<"N","/","A">>
s_Widget_sp == <<" ","W","i","d","g","e","t"," ">>
s_d20240105 == <<"2","0","2","4","-","0","1","-","0","5">>
s_d20241345 == <<"2","0","2","4","-","1","3","-","4","5">>
s_usd12 == <<"$","1","2">>
s_x == <<"x">>
s_epoch == <<"1","9","7","0","-","0","1","-","0","1">>

-----------------------------------------------------------------------------
(* str.lower(), str.strip() and the `in` operator of Python strings.       *)
UpperChars == <<"A","B","C","D","E","F","G","H","I","J","K","L","M",
                "N","O","P","Q","R","S","T","U","V","W","X","Y","Z">>
LowerChars == <<"a","b","c","d","e","f","g","h","i","j","k","l","m",
                "n","o","p","q","r","s","t","u","v","w","x","y","z">>

UpperToLower ==
    [ch \in {UpperChars[i] : i \in DOMAIN UpperChars} |->
        LowerChars[CHOOSE i \in DOMAIN UpperChars : UpperChars[i] = ch]]
UpperSet == DOMAIN UpperToLower

LowerChar(ch) == IF ch \in UpperSet THEN UpperToLower[ch] ELSE ch

Lower(s) == [i \in DOMAIN s |-> LowerChar(s[i])]

IsSpace(ch) == ch = " "

Strip(s) ==
    IF \A i \in DOMAIN s : IsSpace(s[i]) THEN <<>>
    ELSE LET first == CHOOSE i \in DOMAIN s :
                          ~IsSpace(s[i]) /\ \A j \in 1..(i - 1) : IsSpace(s[j])
             last  == CHOOSE i \in DOMAIN s :
                          ~IsSpace(s[i]) /\ \A j \in (i + 1)..Len(s) : IsSpace(s[j])
         IN  SubSeq(s, first, last)

\* sub in s
Contains(s, sub) ==
    \E i \in 1..(Len(s) - Len(sub) + 1) :
        \A k \in 1..Len(sub) : s[i + k - 1] = sub[k]

None == <<>>
Some(v) == <<v>>

\* LET x == v IN Op(x), with v computed once
With(v, Op(_)) == CHOOSE r \in {Op(x) : x \in {v}} : TRUE

-----------------------------------------------------------------------------
(* A schema is a dict: a function from the keys present to column names.   *)
HasKey(schema, k) == k \in DOMAIN schema
Get(schema, k) == IF k \in DOMAIN schema THEN Some(schema[k]) ELSE None
Put(schema, k, v) == [x \in (DOMAIN schema) \cup {k} |-> IF x = k THEN v ELSE schema[x]]
EmptyDict == [x \in {} |-> <<>>]

(* A DataFrame: column names in file order, and one sequence of n cells    *)
(* per column.  Column names are unique.                                   *)
RawColumns(df) == {df.columns[j] : j \in DOMAIN df.columns}
HasCol(df, name) == \E j \in DOMAIN df.columns : df.columns[j] = name
ColIndex(df, name) == CHOOSE j \in DOMAIN df.columns : df.columns[j] = name
GetCol(df, name) == df.data[ColIndex(df, name)]
SetCol(df, name, vals) ==
    IF HasCol(df, name)
    THEN With(ColIndex(df, name), LAMBDA at :
             [df EXCEPT !.data = [j \in DOMAIN df.data |-> IF j = at THEN vals ELSE df.data[j]]])
    ELSE [df EXCEPT !.columns = Append(@, name), !.data = Append(@, vals)]
\* `k in schema and schema[k] in df.columns`
Resolves(df, schema, k) == HasKey(schema, k) /\ HasCol(df, schema[k])

-----------------------------------------------------------------------------
(* etl.py: alias table, column matcher, schema inferrer.                   *)
COL_ALIASES == <<
    [key |-> "order_id", aliases |-> <<
        <<"o","r","d","e","r","_","i","d">>,
        <<"o","r","d","e","r">>,
        <<"i","d">>,
        <<"t","r","a","n","s","a","c","t","i","o","n","_","i","d">>,
        <<"t","x","n","_","i","d">>>>],
    [key |-> "date", aliases |-> <<
        <<"d","a","t","e">>,
        <<"o","r","d","e","r","_","d","a","t","e">>,
        <<"s","a","l","e","_","d","a","t","e">>,
        <<"t","i","m","e","s","t","a","m","p">>,
        <<"c","r","e","a","t","e","d","_","a","t">>>>],
    [key |-> "product", aliases |-> <<
        <<"p","r","o","d","u","c","t">>,
        <<"p","r","o","d","u","c","t","_","n","a","m","e">>,
        <<"i","t","e","m">>,
        <<"s","k","u">>,
        <<"t","i","t","l","e">>,
        <<"p","r","o","d","u","c","t","_","t","i","t","l","e">>>>],
    [key |-> "category", aliases |-> <<
        <<"c","a","t","e","g","o","r","y">>,
        <<"p","r","o","d","u","c","t","_","c","a","t","e","g","o","r","y">>,
        <<"c","a","t">>,
        <<"c","a","t","e","g","o","r","y","_","n","a","m","e">>>>],
    [key |-> "quantity", aliases |-> <<
        <<"q","u","a","n","t","i","t","y">>,
        <<"q","t","y">>,
        <<"u","n","i","t","s">>,
        <<"q","u","a","n","t","i","t","y","_","s","o","l","d">>,
        <<"c","o","u","n","t">>>>],
    [key |-> "price", aliases |-> <<
        <<"p","r","i","c","e">>,
        <<"u","n","i","t","_","p","r","i","c","e">>,
        <<"s","e","l","l","i","n","g","_","p","r","i","c","e">>,
        <<"p","r","i","c","e","_","p","e","r","_","u","n","i","t">>>>],
    [key |-> "cost", aliases |-> <<
        <<"c","o","s","t">>,
        <<"u","n","i","t","_","c","o","s","t">>,
        <<"c","o","s","t","_","p","r","i","c","e">>,
        <<"c","o","g","s">>>>],
    [key |-> "revenue", aliases |-> <<
        <<"r","e","v","e","n","u","e">>,
        <<"t","o","t","a","l">>,
        <<"s","a","l","e","_","a","m","o","u","n","t">>,
        <<"a","m","o","u","n","t">>,
        <<"s","u","b","t","o","t","a","l">>>>],
    [key |-> "currency", aliases |-> <<
        <<"c","u","r","r","e","n","c","y">>,
        <<"c","u","r","r">>>>]
>>

\* the inner loops `for c in cols`, from column j on: the first column that
\* equals the candidate (both lowered and stripped), or contains the
\* candidate (both lowered)
RECURSIVE FirstExact(_, _, _, _)
FirstExact(cols, scols, scand, j) ==
    IF j > Len(cols) THEN None
    ELSE IF scols[j] = scand THEN Some(cols[j])
    ELSE FirstExact(cols, scols, scand, j + 1)

\* FirstFuzzy with the containment test taken in either direction
RECURSIVE FirstFuzzy_EitherWay(_, _, _, _)
FirstFuzzy_EitherWay(cols, lcols, lcand, j) ==
    IF j > Len(cols) THEN None
    ELSE IF Contains(lcols[j], lcand) \/ Contains(lcand, lcols[j]) THEN Some(cols[j])
    ELSE FirstFuzzy_EitherWay(cols, lcols, lcand, j + 1)

RECURSIVE FirstFuzzy(_, _, _, _)
FirstFuzzy(cols, lcols, lcand, j) ==
    IF j > Len(cols) THEN None
    ELSE IF Contains(lcols[j], lcand) THEN Some(cols[j])
    ELSE FirstFuzzy(cols, lcols, lcand, j + 1)

FirstSome(a, b) == IF a # None THEN a ELSE b

\* the outer loops `for cand in candidates`, from candidate i on
RECURSIVE ExactScan(_, _, _, _)
ExactScan(cols, scols, scands, i) ==
    IF i > Len(scands) THEN None
    ELSE FirstSome(FirstExact(cols, scols, scands[i], 1),
                   ExactScan(cols, scols, scands, i + 1))

RECURSIVE FuzzyScan(_, _, _, _)
FuzzyScan(cols, lcols, lcands, i) ==
    IF i > Len(lcands) THEN None
    ELSE FirstSome(FirstFuzzy(cols, lcols, lcands[i], 1),
                   FuzzyScan(cols, lcols, lcands, i + 1))

\* _find_column with the loops exchanged: columns outside, candidates inside
_find_column_ColumnFirst(df_columns, candidates) ==
    LET exact == {j \in DOMAIN df_columns : \E i \in DOMAIN candidates :
                     Strip(Lower(df_columns[j])) = Strip(Lower(candidates[i]))}
        fuzzy == {j \in DOMAIN df_columns : \E i \in DOMAIN candidates :
                     Contains(Lower(df_columns[j]), Lower(candidates[i]))}
        first(S) == CHOOSE j \in S : \A x \in S : j <= x
    IN  IF exact # {} THEN Some(df_columns[first(exact)])
        ELSE IF fuzzy # {} THEN Some(df_columns[first(fuzzy)])
        ELSE None

_find_column(df_columns, candidates) ==
    With(<<[j \in DOMAIN df_columns |-> Lower(df_columns[j])],
           [i \in DOMAIN candidates |-> Lower(candidates[i])]>>,
         LAMBDA low :
    With(<<[j \in DOMAIN low[1] |-> Strip(low[1][j])],
           [i \in DOMAIN low[2] |-> Strip(low[2][i])]>>,
         LAMBDA stripped :
    With(ExactScan(df_columns, stripped[1], stripped[2], 1),
         LAMBDA exact :
    IF exact # None THEN exact ELSE FuzzyScan(df_columns, low[1], low[2], 1))))

\* lines 42-45; `if matched:` is false for None and for the empty string
Found(matched) ==
    LET hits == {i \in DOMAIN COL_ALIASES : matched[i] # None /\ matched[i][1] # <<>>}
    IN  [k \in {COL_ALIASES[i].key : i \in hits} |->
            matched[CHOOSE i \in hits : COL_ALIASES[i].key = k][1]]

\* lines 40-46, for one list of column names
Infer(cols) ==
    With([i \in DOMAIN COL_ALIASES |-> _find_column(cols, COL_ALIASES[i].aliases)], Found)

-----------------------------------------------------------------------------
(* Cells are <<tag, payload>>.  A float is an exact fraction <<n, d>>,     *)
(* d > 0, in lowest terms; NaN, NaT, None and pd.NA are the null cell; a   *)
(* division by zero gives the infinite cell.                               *)
Tag(c) == c[1]
Val(c) == c[2]
Null == <<"null", <<>>>>
Inf(sign) == <<"inf", <<sign>>>>
Str(chars) == <<"str", chars>>
Date(day) == <<"date", day>>
IsNull(c) == Tag(c) = "null"
NotNa(c) == Tag(c) # "null"

Abs(n) == IF n < 0 THEN -n ELSE n
RECURSIVE Gcd(_, _)
Gcd(a, b) == IF b = 0 THEN a ELSE Gcd(b, a % b)
Frac(n, d) ==
    LET g == Gcd(Abs(n), Abs(d))
        s == IF d < 0 THEN -1 ELSE 1
    IN  <<"num", <<(s * n) \div g, (s * d) \div g>>>>
Num(n) == Frac(n, 1)

FillNa(c, x) == IF IsNull(c) THEN x ELSE c
\* float arithmetic of two numeric cells; NaN propagates
MulCell(a, b) ==
    IF IsNull(a) \/ IsNull(b) THEN Null
    ELSE Frac(Val(a)[1] * Val(b)[1], Val(a)[2] * Val(b)[2])
SubCell(a, b) ==
    IF IsNull(a) \/ IsNull(b) THEN Null
    ELSE Frac(Val(a)[1] * Val(b)[2] - Val(b)[1] * Val(a)[2], Val(a)[2] * Val(b)[2])
DivCell(a, b) ==
    IF IsNull(a) \/ IsNull(b) THEN Null
    ELSE IF Val(b)[1] = 0
         THEN (IF Val(a)[1] = 0 THEN Null ELSE Inf(IF Val(a)[1] > 0 THEN 1 ELSE -1))
         ELSE Frac(Val(a)[1] * Val(b)[2], Val(a)[2] * Val(b)[1])
\* Series.round(): numpy rounds an exact half to the even integer
RoundCell(c) ==
    IF Tag(c) # "num" THEN c
    ELSE LET n == Val(c)[1]
             d == Val(c)[2]
             fl == n \div d
             twice == 2 * (n - fl * d)
         IN  IF twice < d THEN Num(fl)
             ELSE IF twice > d THEN Num(fl + 1)
             ELSE IF fl % 2 = 0 THEN Num(fl) ELSE Num(fl + 1)

-----------------------------------------------------------------------------
(* The sheets tables are drawn from.                                       *)
\* a sheet: per column, its header and the cells a row may hold there
Sheets == {
    << [name |-> s_order_date, cells |-> {Null, Str(s_d20240105), Str(s_d20241345)}],
       [name |-> s_Item,       cells |-> {Null, Str(s_Widget_sp)}],
       [name |-> s_Unit_Price, cells |-> {Null, Str(s_usd12)}],
       [name |-> s_Qty,        cells |-> {Null, Num(2)}] >>,
    << [name |-> s_revenue,    cells |-> {Null, Num(0), Num(25)}],
       [name |-> s_unit_cost,  cells |-> {Null, Num(4)}],
       [name |-> s_price,      cells |-> {Num(0), Num(10)}] >>,
    << [name |-> s_Revenue_sp, cells |-> {Str(s_NA), Str(s_usd12), Str(s_x)}],
       [name |-> s_notes,      cells |-> {Null, Str(s_x)}] >> }

\* the column names of a sheet, as the file gives them and as line 141 strips them
Headers ==
    UNION {{[j \in DOMAIN sheet |-> sheet[j].name],
            [j \in DOMAIN sheet |-> Strip(sheet[j].name)]} : sheet \in Sheets}

\* infer_schema reads the column names alone: its result is tabulated once
\* per header and computed for any other
InferredByHeader == [cols \in Headers |-> Infer(cols)]

infer_schema(df) ==
    IF df.columns \in Headers THEN InferredByHeader[df.columns] ELSE Infer(df.columns)

-----------------------------------------------------------------------------
(* etl.py: value normalizers.                                              *)
DigitChars == <<"0","1","2","3","4","5","6","7","8","9">>
IsDigit(ch) == \E i \in DOMAIN DigitChars : DigitChars[i] = ch
DigitVal(ch) == (CHOOSE i \in DOMAIN DigitChars : DigitChars[i] = ch) - 1
AllDigits(s) == \A i \in DOMAIN s : IsDigit(s[i])
RECURSIVE DigitsVal(_)
DigitsVal(s) ==
    IF s = <<>> THEN 0
    ELSE 10 * DigitsVal(SubSeq(s, 1, Len(s) - 1)) + DigitVal(s[Len(s)])
RECURSIVE Pow10(_)
Pow10(k) == IF k = 0 THEN 1 ELSE 10 * Pow10(k - 1)
RECURSIVE IntStr(_)
IntStr(n) ==
    IF n < 0 THEN <<"-">> \o IntStr(-n)
    ELSE IF n < 10 THEN <<DigitChars[n + 1]>>
    ELSE IntStr(n \div 10) \o <<DigitChars[(n % 10) + 1]>>

\* the characters the pattern [^\d\.\-eE] leaves in place
KeptByPattern(ch) == IsDigit(ch) \/ ch \in {".", "-", "e", "E"}

\* pd.to_numeric(errors="coerce") of one string: an optional sign, digits and
\* at most one decimal point; everything else is NaN (the cell texts of this
\* model never form an exponent literal)
ParseNumber(s) ==
    LET neg  == Len(s) > 0 /\ s[1] = "-"
        body == IF neg THEN Tail(s) ELSE s
        sign == IF neg THEN -1 ELSE 1
        dots == {i \in DOMAIN body : body[i] = "."}
    IN  IF dots = {}
        THEN (IF body # <<>> /\ AllDigits(body) THEN Num(sign * DigitsVal(body)) ELSE Null)
        ELSE IF Cardinality(dots) > 1 THEN Null
        ELSE LET i  == CHOOSE x \in dots : TRUE
                 ip == SubSeq(body, 1, i - 1)
                 fp == SubSeq(body, i + 1, Len(body))
             IN  IF AllDigits(ip) /\ AllDigits(fp) /\ (ip \o fp) # <<>>
                 THEN Frac(sign * (DigitsVal(ip) * Pow10(Len(fp)) + DigitsVal(fp)),
                           Pow10(Len(fp)))
                 ELSE Null

is_numeric_dtype(col) == \A i \in DOMAIN col : Tag(col[i]) \in {"num", "null", "inf"}
\* an int64 column cannot hold NaN: a numeric column with a null is float64
IsFloatColumn(col) == is_numeric_dtype(col) /\ \E i \in DOMAIN col : Tag(col[i]) # "num"

\* str(x) of one cell, as Series.astype(str) computes it
AsStr(c, float) ==
    CASE Tag(c) = "null" -> s_nan
      [] Tag(c) = "str"  -> Val(c)
      [] Tag(c) = "date" -> Val(c)
      [] Tag(c) = "inf"  -> IF Val(c)[1] > 0 THEN <<"i","n","f">> ELSE <<"-","i","n","f">>
      [] Tag(c) = "num"  -> IF Val(c)[2] = 1
                         THEN IntStr(Val(c)[1]) \o (IF float THEN <<".","0">> ELSE <<>>)
                         ELSE IntStr(Val(c)[1]) \o <<"/">> \o IntStr(Val(c)[2])

CoerceText(c) ==
    IF Tag(c) = "num" THEN c
    ELSE ParseNumber(SelectSeq(AsStr(c, FALSE), KeptByPattern))

coerce_numeric(col) ==
    IF is_numeric_dtype(col) THEN col
    ELSE [i \in DOMAIN col |-> CoerceText(col[i])]

\* texts that pandas and dateutil both read as a calendar date
ValidDateTexts == {s_d20240105}

\* pd.to_datetime(errors="coerce") of one cell; a number is read as
\* nanoseconds since the epoch
ToDatetime(c) ==
    CASE Tag(c) = "null" -> Null
      [] Tag(c) = "date" -> c
      [] Tag(c) = "num"  -> Date(s_epoch)
      [] Tag(c) = "inf"  -> Null
      [] Tag(c) = "str"  -> IF Val(c) \in ValidDateTexts THEN Date(Val(c)) ELSE Null

\* _try_parse: dateutil, month-first then day-first
TryParse(c) ==
    CASE Tag(c) = "null" -> Null
      [] Tag(c) = "date" -> c
      [] Tag(c) = "str"  -> IF Val(c) \in ValidDateTexts THEN Date(Val(c)) ELSE Null
      [] OTHER        -> Null

parse_date_series(col) ==
    With([i \in DOMAIN col |-> ToDatetime(col[i])], LAMBDA s_parsed :
        LET ok == Cardinality({i \in DOMAIN col : NotNa(s_parsed[i])})
            n  == IF Len(col) > 1 THEN Len(col) ELSE 1
        IN  IF 10 * ok > n THEN s_parsed
            ELSE [i \in DOMAIN col |-> TryParse(col[i])])

-----------------------------------------------------------------------------
(* etl.py: derivation engine.  compute_derived returns the table and       *)
(* updates the caller's schema dict in place: the model returns both.      *)
Truthy(opt) == opt # None /\ opt[1] # <<>>
OrElse(a, b) == IF Truthy(a) THEN a ELSE b
InColumns(df, opt) == opt # None /\ HasCol(df, opt[1])

CoerceColumn(df, name) == SetCol(df, name, coerce_numeric(GetCol(df, name)))

\* lines 80-82
RECURSIVE CoerceMapped(_, _, _)
CoerceMapped(df, schema, keys) ==
    IF keys = <<>> THEN df
    ELSE With(IF Resolves(df, schema, Head(keys))
              THEN CoerceColumn(df, schema[Head(keys)])
              ELSE df,
              LAMBDA coerced : CoerceMapped(coerced, schema, Tail(keys)))

Product(df, a, b) ==
    [i \in 1..df.n |-> MulCell(GetCol(df, a)[i], GetCol(df, b)[i])]

\* lines 84-91
DeriveRevenue(st) ==
    IF /\ ~Resolves(st.df, st.schema, "revenue")
       /\ Resolves(st.df, st.schema, "price")
       /\ Resolves(st.df, st.schema, "quantity")
    THEN [df |-> SetCol(st.df, s_revenue_computed,
                        Product(st.df, st.schema["price"], st.schema["quantity"])),
          schema |-> Put(st.schema, "revenue", s_revenue_computed)]
    ELSE st

\* lines 93-99
DeriveCostTotal(st) ==
    IF Resolves(st.df, st.schema, "cost") /\ Resolves(st.df, st.schema, "quantity")
    THEN [df |-> SetCol(st.df, s_cost_computed,
                        Product(st.df, st.schema["cost"], st.schema["quantity"])),
          schema |-> Put(st.schema, "cost_total", s_cost_computed)]
    ELSE st

\* line 103
CostCol(schema) == OrElse(Get(schema, "cost_total"), Get(schema, "cost"))

CoerceIfPresent(df, col) ==
    IF Truthy(col) /\ HasCol(df, col[1]) THEN CoerceColumn(df, col[1]) ELSE df

\* lines 102-108
CoerceResolved(st) ==
    With(CoerceIfPresent(st.df, Get(st.schema, "revenue")), LAMBDA df1 :
         [df |-> CoerceIfPresent(df1, CostCol(st.schema)), schema |-> st.schema])

\* safe_margin without the test for a zero revenue
safe_margin_Unguarded(rev, profit) == DivCell(profit, rev)

\* lines 113-117: `rev in (None, 0, np.nan)` is true of a zero; a NaN revenue
\* passes the test and makes the quotient NaN
safe_margin(rev, profit) ==
    IF Tag(rev) = "num" /\ Val(rev)[1] = 0 THEN Null ELSE DivCell(profit, rev)

Difference(df, rev_col, cost_col) ==
    [i \in 1..df.n |-> SubCell(FillNa(GetCol(df, rev_col)[i], Num(0)),
                               FillNa(GetCol(df, cost_col)[i], Num(0)))]

Margins(df, rev_col) ==
    [i \in 1..df.n |-> safe_margin(GetCol(df, rev_col)[i], GetCol(df, s_profit)[i])]

NaNs(df) == [i \in 1..df.n |-> Null]

\* lines 110-122
DeriveProfit(st) ==
    LET rev_col  == Get(st.schema, "revenue")
        cost_col == CostCol(st.schema)
    IN  [df |-> IF InColumns(st.df, rev_col) /\ InColumns(st.df, cost_col)
                THEN With(SetCol(st.df, s_profit, Difference(st.df, rev_col[1], cost_col[1])),
                          LAMBDA df1 : SetCol(df1, s_margin, Margins(df1, rev_col[1])))
                ELSE SetCol(SetCol(st.df, s_profit, NaNs(st.df)), s_margin, NaNs(st.df)),
         schema |-> st.schema]

\* lines 124-130
InferQuantity(st) ==
    IF /\ ~Resolves(st.df, st.schema, "quantity")
       /\ Resolves(st.df, st.schema, "price")
       /\ InColumns(st.df, Get(st.schema, "revenue"))
    THEN [df |-> SetCol(st.df, s_quantity_inferred,
                    [i \in 1..st.df.n |->
                        FillNa(RoundCell(DivCell(GetCol(st.df, st.schema["revenue"])[i],
                                                 GetCol(st.df, st.schema["price"])[i])),
                               Num(0))]),
          schema |-> Put(st.schema, "quantity", s_quantity_inferred)]
    ELSE st

compute_derived(df, schema) ==
    With([df |-> CoerceMapped(df, schema, <<"quantity", "price", "revenue", "cost">>),
          schema |-> schema],          LAMBDA coerced :
    With(DeriveRevenue(coerced),       LAMBDA withRevenue :
    With(DeriveCostTotal(withRevenue), LAMBDA withCost :
    With(CoerceResolved(withCost),     LAMBDA resolved :
    With(DeriveProfit(resolved),       InferQuantity)))))

-----------------------------------------------------------------------------
(* etl.py: cleaning pipeline.  user_schema is a dict from canonical keys   *)
(* to an optional column name; the empty dict stands for None as well,     *)
(* since `if user_schema:` treats both alike.                              *)
NullTokens == {<<>>, s_NA, s_N_A}

\* lines 140-142
Normalize(df) ==
    [df EXCEPT
        !.columns = [j \in DOMAIN df.columns |-> Strip(df.columns[j])],
        !.data = [j \in DOMAIN df.data |->
                    [i \in DOMAIN df.data[j] |->
                        IF Tag(df.data[j][i]) = "str" /\ Val(df.data[j][i]) \in NullTokens
                        THEN Null ELSE df.data[j][i]]]]

IsUnset(v) == v = None \/ v = Some(s_None)

\* MergeUser that removes a field overridden with a name that is no column
MergeUser_DropsMissing(df, inferred, user_schema) ==
    LET dropped  == {k \in DOMAIN user_schema :
                        IsUnset(user_schema[k]) \/ ~HasCol(df, user_schema[k][1])}
        override == (DOMAIN user_schema) \ dropped
    IN  [k \in ((DOMAIN inferred) \ dropped) \cup override |->
            IF k \in override THEN user_schema[k][1] ELSE inferred[k]]

\* MergeUser that leaves the auto-detected entry of a field marked unset
MergeUser_KeepsUnset(df, inferred, user_schema) ==
    LET override == {k \in DOMAIN user_schema :
                        ~IsUnset(user_schema[k]) /\ HasCol(df, user_schema[k][1])}
    IN  [k \in (DOMAIN inferred) \cup override |->
            IF k \in override THEN user_schema[k][1] ELSE inferred[k]]

\* MergeUser that takes an override without looking for its column
MergeUser_TrustsUser(df, inferred, user_schema) ==
    LET unset    == {k \in DOMAIN user_schema : IsUnset(user_schema[k])}
        override == (DOMAIN user_schema) \ unset
    IN  [k \in ((DOMAIN inferred) \ unset) \cup override |->
            IF k \in override THEN user_schema[k][1] ELSE inferred[k]]

\* lines 146-156
MergeUser(df, inferred, user_schema) ==
    LET unset    == {k \in DOMAIN user_schema : IsUnset(user_schema[k])}
        override == {k \in DOMAIN user_schema :
                        ~IsUnset(user_schema[k]) /\ HasCol(df, user_schema[k][1])}
    IN  [k \in ((DOMAIN inferred) \ unset) \cup override |->
            IF k \in override THEN user_schema[k][1] ELSE inferred[k]]

\* lines 158-165
ParseDate(st) ==
    IF Resolves(st.df, st.schema, "date")
    THEN [df |-> SetCol(st.df, s_parsed_date,
                     With(parse_date_series(GetCol(st.df, st.schema["date"])),
                          LAMBDA parsed : [i \in DOMAIN parsed |-> ToDatetime(parsed[i])])),
          schema |-> Put(st.schema, "date", s_parsed_date)]
    ELSE st

\* line 170: .astype(str).fillna("Unknown").str.strip()
TrimColumn(col) ==
    With(IsFloatColumn(col), LAMBDA float :
        [i \in DOMAIN col |->
            Str(Strip(Val(FillNa(Str(AsStr(col[i], float)), Str(s_Unknown)))))])

\* lines 167-170
RECURSIVE TrimMapped(_, _, _)
TrimMapped(df, schema, keys) ==
    IF keys = <<>> THEN df
    ELSE With(IF Resolves(df, schema, Head(keys))
              THEN SetCol(df, schema[Head(keys)], TrimColumn(GetCol(df, schema[Head(keys)])))
              ELSE df,
              LAMBDA trimmed : TrimMapped(trimmed, schema, Tail(keys)))

\* lines 172-178
FillQuantity(df, schema) ==
    IF Resolves(df, schema, "quantity")
    THEN SetCol(df, schema["quantity"],
             With(coerce_numeric(GetCol(df, schema["quantity"])),
                  LAMBDA q : [i \in DOMAIN q |-> FillNa(q[i], Num(1))]))
    ELSE df

\* lines 184-190
HasAny(df, schema, i) ==
    \/ Resolves(df, schema, "date") /\ NotNa(GetCol(df, schema["date"])[i])
    \/ Resolves(df, schema, "revenue") /\ NotNa(GetCol(df, schema["revenue"])[i])
    \/ Resolves(df, schema, "product") /\ NotNa(GetCol(df, schema["product"])[i])

RECURSIVE KeptRows(_, _, _)
KeptRows(df, schema, i) ==
    IF i > df.n THEN <<>>
    ELSE (IF HasAny(df, schema, i) THEN <<i>> ELSE <<>>) \o KeptRows(df, schema, i + 1)

\* lines 191-193
AdmitRows(df, schema) ==
    LET kept == KeptRows(df, schema, 1)
    IN  [columns |-> df.columns,
         n |-> Len(kept),
         data |-> [j \in DOMAIN df.data |-> [r \in DOMAIN kept |-> df.data[j][kept[r]]]]]

\* lines 140-181: everything before the row filter
Derived(df, user_schema) ==
    With(Normalize(df),                                         LAMBDA df1 :
    With(MergeUser(df1, infer_schema(df1), user_schema),        LAMBDA schema :
    With(ParseDate([df |-> df1, schema |-> schema]),            LAMBDA dated :
    With(TrimMapped(dated.df, dated.schema, <<"product", "category", "order_id">>),
                                                                LAMBDA trimmed :
    With(FillQuantity(trimmed, dated.schema),                   LAMBDA filled :
         compute_derived(filled, dated.schema))))))

Admitted(st) == [df |-> AdmitRows(st.df, st.schema), schema |-> st.schema]

clean_dataframe(df, user_schema) == With(Derived(df, user_schema), Admitted)

-----------------------------------------------------------------------------
(* app.py over utils.py: one run of the Streamlit script.  session_state   *)
(* is a record with one optional field per key of st.session_state        *)
(* (None: the key is absent).                                              *)
canonical_fields ==
    {"date", "order_id", "product", "category", "quantity", "price", "cost", "revenue"}

EmptySession ==
    [pf_df |-> None, pf_schema |-> None, raw_df |-> None, inferred |-> None,
     user_mapping |-> None, applied_mapping |-> None, applied_is_user_mapping |-> FALSE]

\* utils.py
set_session_df(ss, df, schema) == [ss EXCEPT !.pf_df = Some(df), !.pf_schema = Some(schema)]
clear_session(ss) == [ss EXCEPT !.pf_df = None, !.pf_schema = None]

\* the files a user may select: a readable file holds a table, and
\* read_uploaded_file raises on the others
FileA ==
    [ok |-> TRUE,
     table |-> [columns |-> <<s_order_date, s_Item, s_Unit_Price, s_Qty>>, n |-> 2,
                data |-> << <<Str(s_d20240105), Null>>, <<Str(s_Widget_sp), Null>>,
                            <<Str(s_usd12), Null>>, <<Num(2), Null>> >>]]
FileB ==
    [ok |-> TRUE,
     table |-> [columns |-> <<s_revenue, s_unit_cost, s_price>>, n |-> 2,
                data |-> << <<Num(25), Null>>, <<Num(4), Num(4)>>, <<Num(10), Num(0)>> >>]]
Unreadable == [ok |-> FALSE, table |-> [columns |-> <<>>, n |-> 0, data |-> <<>>]]
Files == {FileA, FileB, Unreadable}

\* lines 26-32
ClearPressed(ss) ==
    [clear_session(ss) EXCEPT !.raw_df = None, !.inferred = None, !.user_mapping = None,
                              !.applied_mapping = None, !.applied_is_user_mapping = FALSE]

StorePair(ss, pair) == set_session_df(ss, pair.df, pair.schema)

\* lines 40-48
HandleUpload(ss, raw) ==
    StorePair([ss EXCEPT !.raw_df = Some(raw), !.inferred = Some(infer_schema(raw))],
              clean_dataframe(raw, EmptyDict))

\* line 62 and line 66
InferredOf(ss) == IF ss.inferred # None THEN ss.inferred[1] ELSE EmptyDict
RawOf(ss) == IF ss.raw_df # None THEN ss.raw_df[1] ELSE ss.pf_df[1]

\* lines 74 and 115
DefaultMap(inferred) ==
    [k \in canonical_fields |->
        IF HasKey(inferred, k) /\ inferred[k] # <<>> THEN Some(inferred[k]) ELSE None]

\* lines 81-85: the select box of one field.  Its options are "None" and the
\* columns of the raw table; it shows the stored choice when that is one of
\* the options and the first option otherwise, unless the user has just
\* picked `edit` in it.
Options(columns) == {s_None} \cup columns
Selected(stored, columns, k, edit) ==
    LET default_choice == IF stored[k] = None THEN s_None ELSE stored[k][1]
        sel == IF edit # None /\ edit[1][1] = k THEN edit[1][2]
               ELSE IF default_choice \in Options(columns) THEN default_choice
               ELSE s_None
    IN  IF sel = s_None THEN None ELSE Some(sel)

\* lines 73-85
SchemaEditor(ss, edit) ==
    With([k \in canonical_fields |->
             Selected(IF ss.user_mapping = None THEN DefaultMap(InferredOf(ss))
                      ELSE ss.user_mapping[1],
                      RawColumns(RawOf(ss)), k, edit)],
         LAMBDA mapping :
             [ss EXCEPT !.user_mapping = Some(mapping),
                        !.applied_mapping =
                            IF ss.user_mapping # None /\ ss.applied_is_user_mapping
                            THEN Some(mapping) ELSE @,
                        !.applied_is_user_mapping = ss.user_mapping # None /\ @])

\* lines 97-104
AutoCleanPressed(ss) == StorePair(ss, clean_dataframe(RawOf(ss), EmptyDict))

\* lines 114-123
RevertPressed(ss) ==
    StorePair([ss EXCEPT !.user_mapping = Some(DefaultMap(InferredOf(ss))),
                         !.applied_is_user_mapping = FALSE],
              clean_dataframe(RawOf(ss), EmptyDict))

\* PreviewPressed that stores the preview as the pair of the session
PreviewPressed_Storing(ss) ==
    With(clean_dataframe(RawOf(ss), ss.user_mapping[1]), LAMBDA p :
        [ss |-> StorePair(ss, p), preview |-> Some(p)])

\* lines 126-190: the preview is computed and shown; the session is not written
PreviewPressed(ss) ==
    [ss |-> ss, preview |-> Some(clean_dataframe(RawOf(ss), ss.user_mapping[1]))]

\* lines 193-203
ApplyPressed(ss) ==
    [StorePair(ss, clean_dataframe(RawOf(ss), ss.user_mapping[1]))
        EXCEPT !.applied_mapping = ss.user_mapping, !.applied_is_user_mapping = TRUE]

CurrentPair(ss) ==
    IF ss.pf_df = None THEN None ELSE Some([df |-> ss.pf_df[1], schema |-> ss.pf_schema[1]])

Stopped(ss, where) ==
    [ss |-> ss, screen |-> where, dash |-> None, preview |-> None]
Rerunning(ss) ==
    [ss |-> ss, screen |-> "rerun", dash |-> None, preview |-> None]
\* lines 205-273: the dashboard reads the pair of the session
Dashboard(ss, preview) ==
    [ss |-> ss, screen |-> "dashboard", dash |-> CurrentPair(ss), preview |-> preview]

\* lines 59-203, for a session that holds a table
EditorAndButtons(ss, button, edit) ==
    With(SchemaEditor(ss, edit), LAMBDA edited :
        CASE button = "autoclean" -> Rerunning(AutoCleanPressed(edited))
          [] button = "revert"    -> Rerunning(RevertPressed(edited))
          [] button = "apply"     -> Rerunning(ApplyPressed(edited))
          [] button = "preview"   ->
                 With(PreviewPressed(edited), LAMBDA p : Dashboard(p.ss, p.preview))
          [] OTHER                -> Dashboard(edited, None))

\* lines 34-57
AfterUpload(ss, button, edit) ==
    IF ss.pf_df = None THEN Stopped(ss, "no_data")
    ELSE EditorAndButtons(ss, button, edit)

\* the whole script: `file` is what st.file_uploader returns in this run,
\* `button` the button pressed to start it ("none": another widget or a rerun)
\* and `edit` the select box changed to start it
Script(ss, file, button, edit) ==
    IF button = "clear" THEN Rerunning(ClearPressed(ss))
    ELSE IF file = None THEN AfterUpload(ss, button, edit)
    ELSE IF ~file[1].ok THEN Stopped(ss, "error")
    ELSE With(HandleUpload(ss, file[1].table), LAMBDA loaded :
              AfterUpload(loaded, button, edit))

-----------------------------------------------------------------------------
(* Input spaces.                                                           *)
MaxFindCols == 2
MaxCands == 2
MaxRows == 1

SeqsUpTo(S, n) == UNION {[1..k -> S] : k \in 0..n}

FindNames == {s_qty, s_quantity, s_QTY_sp, s_qty_sold, s_q}
FindCands == {s_quantity, s_qty, s_Qty, s_qty_sp}

RECURSIVE RowsOf(_)
RowsOf(sheet) ==
    IF sheet = <<>> THEN {<<>>}
    ELSE {<<c>> \o r : c \in Head(sheet).cells, r \in RowsOf(Tail(sheet))}

TablesOf(sheet) ==
    {[columns |-> [j \in DOMAIN sheet |-> sheet[j].name],
      n |-> Len(rows),
      data |-> [j \in DOMAIN sheet |-> [i \in DOMAIN rows |-> rows[i][j]]]] :
        rows \in SeqsUpTo(RowsOf(sheet), MaxRows)}

Tables == UNION {TablesOf(sheet) : sheet \in Sheets}

\* user_schema dicts: the key sets a caller overrides, and per key None,
\* "None", a name that is no column, or any column of the table
OverrideKeys == {{}, {"date"}, {"product"}, {"quantity"}, {"price"}, {"cost"},
                 {"revenue"}, {"revenue", "cost"}, {"quantity", "revenue"}}
OverrideValues(df) ==
    {None, Some(s_None), Some(s_missing)} \cup {Some(c) : c \in RawColumns(df)}
UserSchemas(df) == UNION {[K -> OverrideValues(df)] : K \in OverrideKeys}

-----------------------------------------------------------------------------
VARIABLES
    fc,             \* one call of _find_column: arguments, and the result once returned
    cl,             \* one call of clean_dataframe: arguments, and the result once returned
    uploaded,       \* what st.file_uploader holds: None or the selected file
    session_state,  \* st.session_state
    screen,         \* where the last script run ended: "no_data", "error", "dashboard"
                    \* or "rerun" (st.experimental_rerun was called: a run is pending)
    dash,           \* the (table, schema) pair the dashboard of the last run consumed
    preview,        \* the preview pair the last run displayed
    applied,        \* history: the pair stored by the last Apply, while the user has not
                    \* pressed Apply, Revert, Re-run auto-clean or Clear, or uploaded
                    \* another file, since
    cleared         \* history: Clear was pressed and no file was uploaded since

appvars == <<uploaded, session_state, screen, dash, preview, applied, cleared>>
vars == <<fc, cl, appvars>>

FcIdle == [cols |-> <<>>, cands |-> <<>>, done |-> FALSE, out |-> None]
ClIdle == [df |-> [columns |-> <<>>, n |-> 0, data |-> <<>>], user |-> EmptyDict,
           done |-> FALSE, out |-> None]

\* the app after its first script run: nothing selected, nothing stored
AppStart ==
    /\ uploaded = None
    /\ session_state = EmptySession
    /\ screen = "no_data"
    /\ dash = None
    /\ preview = None
    /\ applied = None
    /\ cleared = FALSE

(* _find_column applied to every (columns, candidates) pair of the bounds. *)
InitFind ==
    /\ \E c \in SeqsUpTo(FindNames, MaxFindCols) : \E k \in SeqsUpTo(FindCands, MaxCands) :
           fc = [cols |-> c, cands |-> k, done |-> FALSE, out |-> None]
    /\ cl = ClIdle
    /\ AppStart

FindCall ==
    /\ ~fc.done
    /\ fc' = [fc EXCEPT !.done = TRUE, !.out = _find_column(fc.cols, fc.cands)]
    /\ UNCHANGED <<cl, appvars>>

NextFind == FindCall
SpecFind == InitFind /\ [][NextFind]_vars

(* clean_dataframe applied to every (table, user_schema) pair of the       *)
(* bounds.                                                                 *)
InitClean ==
    /\ \E t \in Tables : \E u \in UserSchemas(t) :
           cl = [df |-> t, user |-> u, done |-> FALSE, out |-> None]
    /\ fc = FcIdle
    /\ AppStart

CleanCall ==
    /\ ~cl.done
    /\ cl' = [cl EXCEPT !.done = TRUE, !.out = Some(clean_dataframe(cl.df, cl.user))]
    /\ UNCHANGED <<fc, appvars>>

NextClean == CleanCall
SpecClean == InitClean /\ [][NextClean]_vars

(* The app: every step is one user event and the script run it starts, or  *)
(* the run that st.experimental_rerun starts.                              *)
Init ==
    /\ fc = FcIdle
    /\ cl = ClIdle
    /\ AppStart

\* the fields whose select box the user changes, and the options picked
EditKeys == {"revenue", "quantity"}
EditChoices == {s_None, s_Unit_Price, s_Qty, s_price, s_revenue}

Run(file, button, edit) ==
    /\ \E r \in {Script(session_state, file, button, edit)} :
           /\ session_state' = r.ss
           /\ screen' = r.screen
           /\ dash' = r.dash
           /\ preview' = r.preview
    /\ uploaded' = file
    /\ UNCHANGED <<fc, cl>>

UploadFile(f) ==
    /\ screen # "rerun"
    /\ uploaded # Some(f)
    /\ Run(Some(f), "none", None)
    /\ applied' = None
    /\ cleared' = FALSE

RemoveFile ==
    /\ screen # "rerun"
    /\ uploaded # None
    /\ Run(None, "none", None)
    /\ UNCHANGED <<applied, cleared>>

\* the user changes one of the sidebar options (lines 24-25)
ChangeOption ==
    /\ screen # "rerun"
    /\ Run(uploaded, "none", None)
    /\ UNCHANGED <<applied, cleared>>

SelectMapping(k, v) ==
    /\ screen = "dashboard"
    /\ v \in Options(RawColumns(RawOf(session_state)))
    /\ Run(uploaded, "none", Some(<<k, v>>))
    /\ UNCHANGED <<applied, cleared>>

PressClear ==
    /\ screen # "rerun"
    /\ Run(uploaded, "clear", None)
    /\ applied' = None
    /\ cleared' = TRUE

PressPreview ==
    /\ screen = "dashboard"
    /\ Run(uploaded, "preview", None)
    /\ UNCHANGED <<applied, cleared>>

PressApply ==
    /\ screen = "dashboard"
    /\ Run(uploaded, "apply", None)
    /\ applied' = CurrentPair(session_state')
    /\ UNCHANGED cleared

PressRevert ==
    /\ screen = "dashboard"
    /\ Run(uploaded, "revert", None)
    /\ applied' = None
    /\ UNCHANGED cleared

PressAutoClean ==
    /\ screen = "dashboard"
    /\ Run(uploaded, "autoclean", None)
    /\ applied' = None
    /\ UNCHANGED cleared

\* the run started by st.experimental_rerun
Rerun ==
    /\ screen = "rerun"
    /\ Run(uploaded, "none", None)
    /\ UNCHANGED <<applied, cleared>>

Next ==
    \/ \E f \in Files : UploadFile(f)
    \/ RemoveFile
    \/ ChangeOption
    \/ \E k \in EditKeys : \E v \in EditChoices : SelectMapping(k, v)
    \/ PressClear
    \/ PressPreview
    \/ PressApply
    \/ PressRevert
    \/ PressAutoClean
    \/ Rerun

Spec == Init /\ [][Next]_vars

(* Either of the two: one call of clean_dataframe on any (table,           *)
(* user_schema) pair of the bounds, or a session of the app.               *)
InitPairs ==
    /\ fc = FcIdle
    /\ AppStart
    /\ \/ cl = ClIdle
       \/ \E t \in Tables : \E u \in UserSchemas(t) :
              cl = [df |-> t, user |-> u, done |-> FALSE, out |-> None]

NextPairs ==
    \/ cl # ClIdle /\ CleanCall
    \/ cl = ClIdle /\ Next

SpecPairs == InitPairs /\ [][NextPairs]_vars

-----------------------------------------------------------------------------
(* Properties of the column matcher (SpecFind).                            *)
Min(S) == CHOOSE x \in S : \A y \in S : x <= y

EqualsIgnoringCaseAndTrim(c, cand) == Strip(Lower(c)) = Strip(Lower(cand))
ContainsIgnoringCase(c, cand) == Contains(Lower(c), Lower(cand))

ExactColumns ==
    {j \in DOMAIN fc.cols :
        \E i \in DOMAIN fc.cands : EqualsIgnoringCaseAndTrim(fc.cols[j], fc.cands[i])}
FuzzyColumns ==
    {j \in DOMAIN fc.cols :
        \E i \in DOMAIN fc.cands : ContainsIgnoringCase(fc.cols[j], fc.cands[i])}

\* C7: _find_column returns a column equal to some candidate (ignoring case
\* and surrounding whitespace) whenever one exists; only when none exists, a
\* column that contains some candidate (ignoring case); and None when neither
\* exists, also when a column name is a substring of a candidate.
C7_MatcherPrecedence ==
    fc.done =>
        /\ ExactColumns # {} => \E j \in ExactColumns : fc.out = Some(fc.cols[j])
        /\ ExactColumns = {} /\ FuzzyColumns # {} =>
               \E j \in FuzzyColumns : fc.out = Some(fc.cols[j])
        /\ ExactColumns = {} /\ FuzzyColumns = {} => fc.out = None

\* a column name that is a proper part of a candidate is not matched
C7_Witness ==
    /\ fc.done
    /\ fc.out = None
    /\ \E j \in DOMAIN fc.cols : \E i \in DOMAIN fc.cands :
           ContainsIgnoringCase(fc.cands[i], fc.cols[j])

\* the rule that decides the call: exact when any pair matches exactly
MatchesByRule(j, i) ==
    IF ExactColumns # {}
    THEN EqualsIgnoringCaseAndTrim(fc.cols[j], fc.cands[i])
    ELSE ContainsIgnoringCase(fc.cols[j], fc.cands[i])
MatchingColumns == {j \in DOMAIN fc.cols : \E i \in DOMAIN fc.cands : MatchesByRule(j, i)}
MatchingCands == {i \in DOMAIN fc.cands : \E j \in DOMAIN fc.cols : MatchesByRule(j, i)}

\* C8 as stated: among the matches of the deciding rule, the column that comes
\* first in file order is returned.
C8_FirstColumnWins ==
    fc.done /\ MatchingColumns # {} => fc.out = Some(fc.cols[Min(MatchingColumns)])

\* C8 amended: the first candidate in priority order that matches any column
\* decides, and among the columns it matches the first in file order is returned.
C8_FirstCandidateWins ==
    fc.done /\ MatchingCands # {} =>
        fc.out = Some(fc.cols[Min({j \in DOMAIN fc.cols :
                                      MatchesByRule(j, Min(MatchingCands))})])

\* a tie that candidate priority decides against file order
C8_Witness ==
    /\ fc.done
    /\ MatchingColumns # {}
    /\ fc.out # Some(fc.cols[Min(MatchingColumns)])

-----------------------------------------------------------------------------
(* Properties of the cleaning pipeline (SpecClean).                        *)
Out == cl.out[1]
Cleaned == Normalize(cl.df)

\* the keys of user_schema that name something that is no column of the table
MissingOverrides ==
    {k \in DOMAIN cl.user : ~IsUnset(cl.user[k]) /\ ~HasCol(Cleaned, cl.user[k][1])}
UnsetKeys == {k \in DOMAIN cl.user : IsUnset(cl.user[k])}
Without(user, k) == [x \in (DOMAIN user) \ {k} |-> user[x]]

\* C5 as stated: a field overridden with a missing column has no entry in the
\* returned schema, and every other field is mapped as without that entry.
C5_MissingFieldDropped ==
    cl.done =>
        \A k \in MissingOverrides :
            /\ ~HasKey(Out.schema, k)
            /\ \A other \in DOMAIN Out.schema \ {k} :
                   Get(Out.schema, other) =
                       Get(clean_dataframe(cl.df, Without(cl.user, k)).schema, other)

\* C5 amended: the override is ignored; clean_dataframe returns exactly the
\* (table, schema) pair it returns for user_schema without that entry, so the
\* field keeps its auto-detected or synthesized mapping if it has one.
C5_MissingOverrideIgnored ==
    cl.done =>
        \A k \in MissingOverrides : Out = clean_dataframe(cl.df, Without(cl.user, k))

\* an override naming a missing column, on a field that stays mapped
C5_Witness ==
    cl.done /\ \E k \in MissingOverrides : HasKey(Out.schema, k)

\* C6 as stated: a key marked unset has no entry in the returned schema.
C6_UnsetRemoved ==
    cl.done => \A k \in UnsetKeys : ~HasKey(Out.schema, k)

\* C6 amended: a key marked unset is mapped to no column of the raw table; it
\* has no entry, unless it is revenue or quantity and compute_derived
\* registered the column it synthesized (revenue__computed, quantity__inferred).
C6_UnsetRemovedOrSynthesized ==
    cl.done =>
        \A k \in UnsetKeys :
            \/ ~HasKey(Out.schema, k)
            \/ k = "revenue" /\ Out.schema[k] = s_revenue_computed
                             /\ ~HasCol(Cleaned, s_revenue_computed)
            \/ k = "quantity" /\ Out.schema[k] = s_quantity_inferred
                              /\ ~HasCol(Cleaned, s_quantity_inferred)

\* a key that auto-detection maps is marked unset and has no entry
C6_Witness ==
    /\ cl.done
    /\ \E k \in UnsetKeys : HasKey(infer_schema(Cleaned), k) /\ ~HasKey(Out.schema, k)

ProfitCol == GetCol(Out.df, s_profit)
MarginCol == GetCol(Out.df, s_margin)

\* the state of the pipeline just before the row filter, and the product
\* column as the raw table holds it
BeforeFilter == Derived(cl.df, cl.user)
Merged == MergeUser(Cleaned, infer_schema(Cleaned), cl.user)
NullAt(df, schema, k, i) == ~Resolves(df, schema, k) \/ IsNull(GetCol(df, schema[k])[i])
RowHasNothing(i) ==
    /\ NullAt(BeforeFilter.df, BeforeFilter.schema, "date", i)
    /\ NullAt(BeforeFilter.df, BeforeFilter.schema, "revenue", i)
    /\ NullAt(Cleaned, Merged, "product", i)

\* C1: a row survives exactly when its date, its revenue or its product is
\* non-null (date and revenue as parsed, product as the raw table holds it);
\* the filter keeps the order of the rows, so the cleaned table has as many
\* rows as the raw table has rows with one of the three present.
C1_RowAdmission ==
    cl.done => Out.df.n = Cardinality({i \in 1..cl.df.n : ~RowHasNothing(i)})

\* C10: with no cost_total mapping after derivation profit and margin are null
\* on every row, and a non-null profit is revenue (null as 0) minus
\* cost per unit times quantity (null as 0).
C10_ProfitNeedsCostTotal ==
    cl.done =>
        /\ ~HasKey(Out.schema, "cost_total") =>
               \A i \in 1..Out.df.n : IsNull(ProfitCol[i]) /\ IsNull(MarginCol[i])
        /\ \A i \in 1..Out.df.n :
               NotNa(ProfitCol[i]) =>
                   /\ Resolves(Out.df, Out.schema, "revenue")
                   /\ Resolves(Out.df, Out.schema, "cost")
                   /\ Resolves(Out.df, Out.schema, "quantity")
                   /\ ProfitCol[i] =
                          SubCell(FillNa(GetCol(Out.df, Out.schema["revenue"])[i], Num(0)),
                                  FillNa(MulCell(GetCol(Out.df, Out.schema["cost"])[i],
                                                 GetCol(Out.df, Out.schema["quantity"])[i]),
                                         Num(0)))


\* the table compute_derived returns, and its revenue, profit and margin
DerivedRevenue == GetCol(BeforeFilter.df, BeforeFilter.schema["revenue"])
DerivedProfit == GetCol(BeforeFilter.df, s_profit)
DerivedMargin == GetCol(BeforeFilter.df, s_margin)
IsZero(c) == Tag(c) = "num" /\ Val(c)[1] = 0

\* the margin of row i of a derived (table, schema) pair is as C11 states
MarginAsStated(d, i) ==
    LET margin == GetCol(d.df, s_margin)[i]
        profit == GetCol(d.df, s_profit)[i]
    IN  /\ Tag(margin) # "inf"
        /\ IF ~Resolves(d.df, d.schema, "revenue") THEN IsNull(margin)
           ELSE LET revenue == GetCol(d.df, d.schema["revenue"])[i]
                IN  IF IsNull(revenue) \/ IsZero(revenue) THEN IsNull(margin)
                    ELSE NotNa(profit) => margin = DivCell(profit, revenue)

\* C11: in the table compute_derived returns, margin is null on every row
\* when revenue is unmapped and on every row whose revenue is null or zero;
\* margin is never infinite; on every other row where profit was computed,
\* margin is profit / revenue.
C11_MarginSafe ==
    cl.done =>
        With(BeforeFilter, LAMBDA d : \A i \in 1..d.df.n : MarginAsStated(d, i))

\* a row with revenue zero and a profit that is not zero has a null margin
C11_Witness ==
    /\ cl.done
    /\ Resolves(BeforeFilter.df, BeforeFilter.schema, "revenue")
    /\ \E i \in 1..BeforeFilter.df.n :
           /\ IsZero(DerivedRevenue[i])
           /\ NotNa(DerivedProfit[i]) /\ ~IsZero(DerivedProfit[i])
           /\ IsNull(DerivedMargin[i])

\* the nearest integer, an exact half going up
RoundHalfUp(c) ==
    IF Tag(c) # "num" THEN c
    ELSE LET n == Val(c)[1]
             d == Val(c)[2]
             fl == n \div d
         IN  IF 2 * (n - fl * d) < d THEN Num(fl) ELSE Num(fl + 1)

QuantityUnmapped == ~Resolves(Cleaned, Merged, "quantity")
InferenceApplies ==
    /\ QuantityUnmapped
    /\ Resolves(BeforeFilter.df, BeforeFilter.schema, "price")
    /\ Resolves(BeforeFilter.df, BeforeFilter.schema, "revenue")
DerivedPrice == GetCol(BeforeFilter.df, BeforeFilter.schema["price"])
InferredQuantity == GetCol(BeforeFilter.df, s_quantity_inferred)

\* C12: when quantity is unmapped, price is mapped and revenue resolves,
\* quantity__inferred is registered as the quantity mapping and holds on each
\* row revenue / price rounded to the nearest integer, an exact half rounded
\* up, and 0 where the quotient is null.
C12_QuantityInference ==
    cl.done /\ InferenceApplies =>
        /\ HasKey(BeforeFilter.schema, "quantity")
        /\ BeforeFilter.schema["quantity"] = s_quantity_inferred
        /\ HasCol(BeforeFilter.df, s_quantity_inferred)
        /\ \A i \in 1..BeforeFilter.df.n :
               InferredQuantity[i] =
                   FillNa(RoundHalfUp(DivCell(DerivedRevenue[i], DerivedPrice[i])), Num(0))

\* a returned schema supplied as user_schema, and the schema returned then
AsUserSchema(schema) == [k \in DOMAIN schema |-> Some(schema[k])]
RoundTrip == clean_dataframe(cl.df, AsUserSchema(Out.schema)).schema
Synthesized == {s_parsed_date, s_revenue_computed, s_cost_computed, s_quantity_inferred}

\* C13: the schema S1 that clean_dataframe(T, U) returns, supplied again as
\* user_schema for T, gives a schema with the same mapping choices: a field is
\* mapped in one exactly when it is mapped in the other, and a field mapped to
\* raw columns in both is mapped to the same column.
C13_SchemaRoundTrip ==
    cl.done =>
        /\ DOMAIN RoundTrip = DOMAIN Out.schema
        /\ \A k \in DOMAIN RoundTrip \cap DOMAIN Out.schema :
               RoundTrip[k] \notin Synthesized /\ Out.schema[k] \notin Synthesized =>
                   RoundTrip[k] = Out.schema[k]

-----------------------------------------------------------------------------
(* Properties of the app (Spec).                                           *)
Pair == CurrentPair(session_state)

\* C2: after Apply the pair of the session is clean_dataframe(raw, user
\* mapping), and the dashboard of every later script run consumes that pair,
\* until the user presses Apply again, Revert, Re-run auto-clean or Clear, or
\* uploads a different file.
C2_ApplyPersists ==
    applied # None =>
        /\ Pair = applied
        /\ screen = "dashboard" => dash = applied

\* C3: after Clear the session holds no (table, schema) pair and every
\* following script run ends at "No data loaded yet", until a file is
\* uploaded.
C3_ClearDiscards ==
    cleared =>
        /\ Pair = None
        /\ screen \in {"rerun", "no_data"}

\* C4: a script run started by Preview leaves the (table, schema) pair of the
\* session and the stored raw table as they were, whatever the user mapping;
\* the pair and the raw table change only in a run started by Apply, Revert,
\* Re-run auto-clean or Clear, or in a run that handles an uploaded file.
C4_PreviewNonDestructive ==
    [][/\ PressPreview =>
             /\ CurrentPair(session_state') = Pair
             /\ session_state'.raw_df = session_state.raw_df
       /\ \/ CurrentPair(session_state') # Pair
          \/ session_state'.raw_df # session_state.raw_df
          => \/ PressApply \/ PressRevert \/ PressAutoClean \/ PressClear
             \/ uploaded' # None]_vars

\* a preview was displayed that differs from the pair of the session
C4_Witness ==
    /\ preview # None
    /\ Pair # None
    /\ preview # Pair

Injective(schema) ==
    \A k1, k2 \in DOMAIN schema : schema[k1] = schema[k2] => k1 = k2

\* C9: the mapping infer_schema returns (the one the upload handler stores) is
\* injective: no column is the value of two canonical keys.
C9_InferredInjective ==
    session_state.inferred # None => Injective(session_state.inferred[1])


-----------------------------------------------------------------------------
(* Properties of every (table, schema) pair (SpecPairs).                   *)
EntriesExist(pair) == \A k \in DOMAIN pair.schema : HasCol(pair.df, pair.schema[k])

\* C14: every entry of the schema clean_dataframe returns names a column of
\* the table it returns, for every raw table and every user_schema; and every
\* entry of the schema held in the session names a column of the table held
\* with it, after any sequence of upload, Apply, Revert and Re-run auto-clean.
C14_EntriesExist ==
    /\ cl.done => EntriesExist(Out)
    /\ Pair # None => EntriesExist(Pair[1])
    /\ dash # None => EntriesExist(dash[1])

\* Apply has stored a pair whose schema maps two fields to one column and
\* holds a synthesized entry
C14_Witness ==
    /\ applied # None
    /\ Pair = applied
    /\ \E k1, k2 \in DOMAIN Pair[1].schema :
           k1 # k2 /\ Pair[1].schema[k1] = Pair[1].schema[k2]
    /\ \E k \in DOMAIN Pair[1].schema : Pair[1].schema[k] \in Synthesized

====
